---- MODULE Spec2Model ----
(***************************************************************************)
(* Model of the wearable tremor detector sketch (src/src/main.cpp).        *)
(*                                                                         *)
(* Real quantities are fixed point in tenths: a double d of the sketch is  *)
(* the integer 10*d here (Fix).  Time is the millisecond clock; micros()   *)
(* is 1000 * millis().  Computation takes no time; delay() and the         *)
(* blocking playTone() advance the clock by their argument.                *)
(*                                                                         *)
(* The ArduinoFFT calls of performFFT (Hamming windowing, forward          *)
(* transform, magnitudes, all in place on vReal and vImag) are computed in *)
(* fixed point: the weights in thousandths, the twiddle factors in 1/1024, *)
(* the transform in thousandths and the magnitudes in tenths.              *)
(*                                                                         *)
(* Spec is the sketch: setup() and then passes of loop().  SpecLive is the *)
(* sketch on a device started once and left running, with loop() called    *)
(* again and again.  SpecAnalyze, SpecFeedback, SpecClassify and SpecFFT   *)
(* call analyzeFFT, updateFeedback, updateFeedback with the danger         *)
(* classification, and performFFT on their own, on inputs drawn in their   *)
(* initial states.                                                         *)
(***************************************************************************)
EXTENDS Integers, Sequences, FiniteSets, TLC

\* ------------------------------------------------------------ bounds
\* The clock stops the model here (milliseconds): two evaluation periods.
MaxClock == 700000
\* Windows completed in one run.
MaxWindows == 5
\* Presses of the left (start/stop) and of the right (alarm) button in one run.
MaxLeft == 3
MaxRight == 1
\* The largest tremor amplitude of the motion patterns, in m/s^2.
MaxAmp == 2
\* The bin of the window the tremor of the wearer falls in.
TremorBin == 12
\* A long gap between two loop passes (milliseconds).
LongDelay == 600000
\* The largest magnitude of a synthetic spectrum, in tenths.
MaxMag == 3
\* The largest intensity handed to updateFeedback on its own, in tenths.
MaxIntensity == 700

\* ------------------------------------------------------------ constants
samples == 128
samplingFreq == 50
dangerZoneIntensity == 60
sampleInterval == 2000
lowThreshold == 25
highThreshold == 60

\* double -> tenths
Fix(n) == n * 10

\* (the sampling period of a 100 Hz sampling frequency)
samplingPeriod_Fast == 1000000 \div (2 * samplingFreq)

\* unsigned long samplingPeriod = 1000000 / samplingFreq   (microseconds)
samplingPeriod == 1000000 \div samplingFreq

\* The int widths the sketch is built with (AVR Circuit Playground Classic:
\* 16 bit, SAMD Circuit Playground Express: 32 bit).
IntWidths == {16, 32}

\* A value stored in an int of the given width (two's complement wrap).
WrapInt(v, bits) ==
    IF bits = 16
    THEN LET m == v % 65536 IN IF m >= 32768 THEN m - 65536 ELSE m
    ELSE v

\* A value stored in an unsigned int of the given width.
WrapUInt(v, bits) == IF bits = 16 THEN v % 65536 ELSE v

\* const int evaluationPeriod = 10 * 60 * 1000
evaluationPeriod(bits) == WrapInt(10 * 60 * 1000, bits)

\* ------------------------------------------------------------ arithmetic
\* a / s rounded to the nearest integer
RDiv(a, s) == (2 * a + s) \div (2 * s)

RECURSIVE SqrtIter(_, _, _)
SqrtIter(n, lo, hi) ==
    IF lo >= hi THEN lo
    ELSE LET mid == (lo + hi + 1) \div 2
         IN IF mid * mid <= n THEN SqrtIter(n, mid, hi) ELSE SqrtIter(n, lo, mid - 1)

\* sqrt(n), rounded down
Sqrt(n) == SqrtIter(n, 0, 46340)

Max(a, b) == IF a > b THEN a ELSE b

\* ------------------------------------------------------------ the transform
\* 1024 * cos(2 pi k / 128), k = 0..127
CosTab ==
  <<
     1024, 1023, 1019, 1013, 1004, 993, 980, 964, 946, 926, 903, 878, 851, 822, 792, 759,
     724, 688, 650, 610, 569, 526, 483, 438, 392, 345, 297, 249, 200, 150, 100, 50,
     0, -50, -100, -150, -200, -249, -297, -345, -392, -438, -483, -526, -569, -610, -650, -688,
     -724, -759, -792, -822, -851, -878, -903, -926, -946, -964, -980, -993, -1004, -1013, -1019, -1023,
     -1024, -1023, -1019, -1013, -1004, -993, -980, -964, -946, -926, -903, -878, -851, -822, -792, -759,
     -724, -688, -650, -610, -569, -526, -483, -438, -392, -345, -297, -249, -200, -150, -100, -50,
     0, 50, 100, 150, 200, 249, 297, 345, 392, 438, 483, 526, 569, 610, 650, 688,
     724, 759, 792, 822, 851, 878, 903, 926, 946, 964, 980, 993, 1004, 1013, 1019, 1023
  >>

\* 1000 * (0.54 - 0.46 cos(2 pi i / 127)), i = 0..63: the Hamming weights
HammingTab ==
  <<
     80, 81, 82, 85, 89, 94, 100, 107, 116, 125, 135, 146, 159, 172, 186, 201,
     217, 233, 251, 269, 287, 307, 327, 347, 368, 389, 411, 433, 455, 478, 500, 523,
     546, 568, 591, 614, 636, 658, 680, 701, 723, 743, 763, 783, 802, 820, 838, 855,
     871, 887, 901, 915, 928, 939, 950, 960, 969, 976, 983, 989, 993, 996, 999, 1000
  >>

Cos128(k) == CosTab[(k % samples) + 1]
Sin128(k) == Cos128(k + 96)

\* FFT.windowing(FFT_WIN_TYP_HAMMING, FFT_FORWARD): the weight of slot i,
\* the same for i and samples-1-i
Weight(i) == IF i < samples \div 2 THEN HammingTab[i + 1] ELSE HammingTab[samples - i]

\* windowing: tenths in, thousandths out
Windowing(v) == [i \in 0..samples-1 |-> RDiv(v[i] * Weight(i), 10)]

\* (re + i im) * exp(-2 pi i m / 128)
Twiddle(c, m) ==
    << RDiv(c[1] * Cos128(m) + c[2] * Sin128(m), 1024),
       RDiv(c[2] * Cos128(m) - c[1] * Sin128(m), 1024) >>

\* One butterfly column: << E[lo] + s*T[lo], ..., E[hi] + s*T[hi] >>, s = 1 or -1
RECURSIVE Butterflies(_, _, _, _, _)
Butterflies(E, T, s, lo, hi) ==
    IF lo = hi
    THEN << << E[lo][1] + s * T[lo][1], E[lo][2] + s * T[lo][2] >> >>
    ELSE LET mid == (lo + hi) \div 2
         IN Butterflies(E, T, s, lo, mid) \o Butterflies(E, T, s, mid + 1, hi)

\* FFT.compute(FFT_FORWARD): radix-2 decimation in time over the n points of x
RECURSIVE Compute(_, _)
Compute(x, n) ==
    IF n = 1 THEN << x[1] >>
    ELSE LET h == n \div 2
             E == Compute([j \in 1..h |-> x[2*j - 1]], h)
             O == Compute([j \in 1..h |-> x[2*j]], h)
             st == samples \div n
             T == [k \in 1..h |-> Twiddle(O[k], (k-1) * st)]
         IN Butterflies(E, T, 1, 1, h) \o Butterflies(E, T, -1, 1, h)

\* FFT.complexToMagnitude(): sqrt(re^2 + im^2), thousandths in, tenths out
Magnitude2(c) == Sqrt(RDiv(c[1], 100) * RDiv(c[1], 100) + RDiv(c[2], 100) * RDiv(c[2], 100))

\* performFFT(): vImag is zeroed, vReal is windowed, transformed and replaced
\* by the magnitudes, all in place; vImag keeps the imaginary parts.
Transform(v) ==
    LET w == Windowing(v)
        X == Compute([k \in 1..samples |-> << w[k-1], 0 >>], samples)
    IN [vReal |-> [i \in 0..samples-1 |-> Magnitude2(X[i+1])],
        vImag |-> [i \in 0..samples-1 |-> RDiv(X[i+1][2], 100)]]

\* ------------------------------------------------------------ state
VARIABLES
    \* the sketch's globals
    vReal, vImag, index, sampleCount, dangerCount, lastTime, lastSampleSetTime,
    isDeviceRunning, isAlarmEnabled,
    \* the Neopixels, 0..9, each << red, green, blue >>
    pixels,
    \* the build: width of int
    intBits,
    \* the environment: millis(), and the motion pattern of the wearer
    clock, motion,
    \* what the last loop pass did: collectSamples called / its sampling gate
    \* open / its result; the intensity handed to updateFeedback (-1: none);
    \* a classification tick made and millis() at it (-1: none); the alarm
    \* decision printed ("none" when no evaluation); dangerCount and
    \* sampleCount as divided for dangerRatio (-1: none)
    called, gate, ret, intensity, ticked, tickTime, out, dividend, divisor,
    \* history: accepted pushes, completed windows, intensity updates, button
    \* presses, millis() at each evaluation that sounded the alarm
    nPush, nComplete, nUpdates, nLeft, nRight, alarmTimes,
    \* how long the device has been stopped since it was last stopped (ms)
    idle,
    \* history: millis() at the latest classification tick (-1: none yet), the
    \* windows completed since the latest period reset, the period
    \* evaluations made
    prevTick, nSince, nEval,
    \* the buffer as the collectSamples of the last pass returned it when it
    \* returned true (all 0 when it did not)
    window,
    \* a function called on its own: the calls made, the spectrum of the first
    calls, first

progVars == <<vReal, vImag, index, sampleCount, dangerCount, lastTime,
              lastSampleSetTime, isDeviceRunning, isAlarmEnabled, pixels>>
obsVars == <<called, gate, ret, intensity, ticked, tickTime, out, dividend, divisor>>
histVars == <<nPush, nComplete, nUpdates, nLeft, nRight, alarmTimes, idle,
              prevTick, nSince, nEval, window>>
vars == <<progVars, intBits, clock, motion, obsVars, histVars, calls, first>>

Zeros == [i \in 0..samples-1 |-> 0]
Off == << 0, 0, 0 >>
\* CircuitPlayground.clearPixels()
ClearPixels == [p \in 0..9 |-> Off]

\* ------------------------------------------------------------ the sensor
\* The wearer's motion during one fill cycle: a tremor of amplitude amp
\* (m/s^2) at bin TremorBin of the window (12 * 50 / 128 = 4.6875 Hz) along
\* the axis of gravity.  The wearer is still (0) or trembles at MaxAmp.
Motions == {0, MaxAmp}

\* CircuitPlayground.motionX(), motionY(), motionZ() for sample i of the
\* cycle, in tenths of m/s^2
ReadingAt(amp, bin, i) ==
    << 6, 8, 98 + RDiv(amp * 10 * Sin128(bin * i), 1024) >>

Reading(amp, i) == ReadingAt(amp, TremorBin, i)

\* sqrt(x * x + y * y + z * z)
Magnitude(r) == Sqrt(r[1] * r[1] + r[2] * r[2] + r[3] * r[3])

\* The complete window one fill cycle of motion amp leaves in vReal
Windows == [amp \in Motions |-> [i \in 0..samples-1 |-> Magnitude(Reading(amp, i))]]

\* ------------------------------------------------------------ performFFT
\* The transforms of the complete windows, computed once
WindowSpectra == [amp \in Motions |-> Transform(Windows[amp])]

\* performFFT() on the buffer v
performFFT(v) ==
    IF \E amp \in Motions : v = Windows[amp]
    THEN WindowSpectra[CHOOSE amp \in Motions : v = Windows[amp]]
    ELSE Transform(v)

\* ------------------------------------------------------------ collectSamples
\* micros() - lastTime >= samplingPeriod
SamplingGate(us, lt) == us - lt >= samplingPeriod

\* (index > samples: the cursor runs one slot past the buffer)
WindowFull_OffByOne(i) == i > samples

\* (index >= samples - 1: the window reported one push early)
WindowFull_Early(i) == i >= samples - 1

\* index >= samples after index++
WindowFull(i) == i >= samples

\* (the buffer zeroed on every push)
ClearAtStart_EveryPush(idx, v) == Zeros

\* if (index == 0) for (i = 0; i < samples; i++) vReal[i] = 0
ClearAtStart(idx, v) == IF idx = 0 THEN Zeros ELSE v

\* collectSamples() at micros() = us with the reading r
collectSamples(idx, lt, v, us, r) ==
    IF SamplingGate(us, lt)
    THEN LET v0 == ClearAtStart(idx, v)
             v1 == [v0 EXCEPT ![idx] = Magnitude(r)]
             i1 == idx + 1
         IN IF WindowFull(i1)
            THEN [gate |-> TRUE, ret |-> TRUE, index |-> 0, lastTime |-> us, vReal |-> v1]
            ELSE [gate |-> TRUE, ret |-> FALSE, index |-> i1, lastTime |-> us, vReal |-> v1]
    ELSE [gate |-> FALSE, ret |-> FALSE, index |-> idx, lastTime |-> lt, vReal |-> v]

\* ------------------------------------------------------------ analyzeFFT
\* (the band opened at 2 Hz)
InBand_Wide(i) == i * samplingFreq >= 2 * samples /\ i * samplingFreq <= 6 * samples

\* frequency >= 3 && frequency <= 6 with frequency = i * samplingFreq / samples
InBand(i) == i * samplingFreq >= 3 * samples /\ i * samplingFreq <= 6 * samples

\* The running maximum of the loop over bins lo..hi, started at 0:
\* maxIntensity = max(maxIntensity, vReal[i]) for the bins the band test lets in
RECURSIVE AnalyzeBins(_, _, _)
AnalyzeBins(v, lo, hi) ==
    IF lo > hi THEN 0
    ELSE IF lo = hi THEN (IF InBand(lo) THEN Max(0, v[lo]) ELSE 0)
    ELSE LET mid == (lo + hi) \div 2
         IN Max(AnalyzeBins(v, lo, mid), AnalyzeBins(v, mid + 1, hi))

\* analyzeFFT(): for (i = 1; i < samples / 2; i++) ...
analyzeFFT(v) == AnalyzeBins(v, 1, samples \div 2 - 1)

\* ------------------------------------------------------------ updateFeedback
Green == << 0, 255, 0 >>
Yellow == << 255, 255, 0 >>
Red == << 255, 0, 0 >>

SetPixels(ps, c, px) == [p \in 0..9 |-> IF p \in ps THEN c ELSE px[p]]

\* (intensity <= lowThreshold)
IsLow_Inclusive(in) == in <= Fix(lowThreshold)

\* intensity < lowThreshold
IsLow(in) == in < Fix(lowThreshold)

\* intensity >= lowThreshold && intensity < highThreshold
IsMedium(in) == in >= Fix(lowThreshold) /\ in < Fix(highThreshold)

\* updateFeedback(intensity): the pixels it leaves
updateFeedback(in) ==
    IF IsLow(in)
    THEN SetPixels({4, 5}, Green, ClearPixels)
    ELSE IF IsMedium(in)
    THEN SetPixels({4, 5}, Green, SetPixels({2, 3, 6, 7}, Yellow, ClearPixels))
    ELSE SetPixels({4, 5}, Green,
            SetPixels({2, 3, 6, 7}, Yellow, SetPixels({0, 1, 8, 9}, Red, ClearPixels)))

\* ------------------------------------------------------------ handleButtonPress
\* handleButtonPress(): the flags and pixels it leaves and the time it blocks
\* (delay(200) and the blocking playTone(.., 500))
handleButtonPress(left, right, run, alarm, px) ==
    [run    |-> IF left THEN ~run ELSE run,
     alarm  |-> IF right THEN ~alarm ELSE alarm,
     pixels |-> IF left THEN ClearPixels ELSE px,
     delay  |-> (IF left THEN 200 + 500 + 200 + 500 ELSE 0)
                + (IF right THEN 200 + 500 ELSE 0)]

\* ------------------------------------------------------------ the evaluator
\* (the tick gate compared with 3000 ms)
TickDue_Slow(now, lsst) == now - lsst >= 3000

\* millis() - lastSampleSetTime >= sampleInterval
TickDue(now, lsst) == now - lsst >= sampleInterval

\* (intensity > dangerZoneIntensity)
IsDanger_Strict(in) == in > Fix(dangerZoneIntensity)

\* intensity >= dangerZoneIntensity
IsDanger(in) == in >= Fix(dangerZoneIntensity)

\* (sampleCount left as it is)
CountSample_Skip(sc, bits) == sc

\* sampleCount++
CountSample(sc, bits) == WrapUInt(sc + 1, bits)

\* (the period gate tested with ==)
PeriodOver_Exact(now, lsst, bits) == now - lsst = evaluationPeriod(bits)

\* (the period gate compared with sampleInterval)
PeriodOver_Interval(now, lsst, bits) == now - lsst >= sampleInterval

\* millis() - lastSampleSetTime >= evaluationPeriod
PeriodOver(now, lsst, bits) == now - lsst >= evaluationPeriod(bits)

\* (dangerRatio > 0.6)
AlarmDue_Strict(dc, sc, alarm) ==
    /\ IF sc = 0 THEN dc > 0 ELSE 10 * dc > 6 * sc
    /\ alarm

\* dangerRatio >= 0.6 && isAlarmEnabled, dangerRatio = (double)dangerCount /
\* sampleCount: for counters below 2^16 the rounded quotient is >= the double
\* 0.6 exactly when dangerCount / sampleCount >= 6/10; x / 0 is +inf for
\* x > 0 and NaN (never >= 0.6) for x = 0.
AlarmDue(dc, sc, alarm) ==
    /\ IF sc = 0 THEN dc > 0 ELSE 10 * dc >= 6 * sc
    /\ alarm

\* (dangerCount++ outside the if)
CountDanger_Always(dc, in, bits) == WrapUInt(dc + 1, bits)

\* dangerCount++ when the intensity is dangerous
CountDanger(dc, in, bits) == IF IsDanger(in) THEN WrapUInt(dc + 1, bits) ELSE dc

\* (the time read before the tone reused)
PeriodStart_Stale(now, tone) == now

\* lastSampleSetTime = millis() after the evaluation: millis() is read again
\* once the alarm tone (tone milliseconds, blocking) has been played
PeriodStart(now, tone) == now + tone

\* (dangerCount = 0 left out)
ResetCounters_SamplesOnly(sc, dc) == [sampleCount |-> 0, dangerCount |-> dc]

\* dangerCount = 0; sampleCount = 0
ResetCounters(sc, dc) == [sampleCount |-> 0, dangerCount |-> 0]

\* The evaluator when no tick is made
NoTick(sc, dc, lsst) ==
    [sampleCount |-> sc, dangerCount |-> dc, lastSampleSetTime |-> lsst,
     ticked |-> FALSE, tickTime |-> -1, out |-> "none", dividend |-> -1,
     divisor |-> -1, delay |-> 0]

\* Lines 64-89 of loop() at millis() = now with the intensity in
Evaluate(in, now, sc, dc, lsst, alarm, bits) ==
    IF ~TickDue(now, lsst)
    THEN NoTick(sc, dc, lsst)
    ELSE LET dc1 == CountDanger(dc, in, bits)
             sc1 == CountSample(sc, bits)
         IN IF ~PeriodOver(now, lsst, bits)
            THEN [sampleCount |-> sc1, dangerCount |-> dc1, lastSampleSetTime |-> lsst,
                  ticked |-> TRUE, tickTime |-> now, out |-> "none", dividend |-> -1,
                  divisor |-> -1, delay |-> 0]
            ELSE LET fire == AlarmDue(dc1, sc1, alarm)
                     tone == IF fire THEN 500 ELSE 0
                 IN [sampleCount |-> ResetCounters(sc1, dc1).sampleCount,
                     dangerCount |-> ResetCounters(sc1, dc1).dangerCount,
                     lastSampleSetTime |-> PeriodStart(now, tone),
                     ticked |-> TRUE, tickTime |-> now,
                     out |-> IF fire THEN "AlarmTriggered" ELSE "NoAlarm",
                     dividend |-> dc1, divisor |-> sc1, delay |-> tone]

\* (samples collected whether the device runs or not)
Collects_Always(run) == TRUE

\* if (isDeviceRunning) { if (collectSamples()) ...
Collects(run) == run

\* (the analysis made on every pass of a running device)
Analyses_Always(run, completed) == run

\* if (collectSamples()) { performFFT(); analyzeFFT(); updateFeedback(); ... }
Analyses(run, completed) == run /\ completed

\* ------------------------------------------------------------ loop
\* The globals as setup() leaves them, with millis() = 0 at its end
InitProgram ==
    /\ vReal = Zeros /\ vImag = Zeros
    /\ index = 0 /\ sampleCount = 0 /\ dangerCount = 0
    /\ lastTime = 0 /\ lastSampleSetTime = 0
    /\ isDeviceRunning = FALSE /\ isAlarmEnabled = FALSE
    /\ pixels = ClearPixels

InitObserved ==
    /\ clock = 0 /\ motion = 0
    /\ called = FALSE /\ gate = FALSE /\ ret = FALSE /\ intensity = -1
    /\ ticked = FALSE /\ tickTime = -1 /\ out = "none"
    /\ dividend = -1 /\ divisor = -1
    /\ nPush = 0 /\ nComplete = 0 /\ nUpdates = 0 /\ nLeft = 0 /\ nRight = 0
    /\ alarmTimes = << >> /\ idle = 0
    /\ prevTick = -1 /\ nSince = 0 /\ nEval = 0 /\ window = Zeros
    /\ calls = 0 /\ first = Zeros

Init ==
    /\ InitProgram
    /\ InitObserved
    /\ intBits \in IntWidths

\* The gaps between two passes of loop(): none, one sampling period, a long one
Delays == {0, samplingPeriod \div 1000, LongDelay}

\* One pass of loop(), d milliseconds after the previous one, with the buttons
\* as given and the wearer moving as m.
loop(d, left, right, m) ==
    /\ clock + d <= MaxClock
    /\ nComplete < MaxWindows
    /\ left => nLeft < MaxLeft
    /\ right => nRight < MaxRight
    \* a run that stops the device does not toggle the alarm, and conversely
    /\ right => nLeft <= 1
    /\ (left /\ nLeft >= 1) => nRight = 0
    \* a fill cycle sees one motion pattern
    /\ index # 0 => m = motion
    \* a stopped device is polled right away or after a long gap
    /\ ~isDeviceRunning => d \in {0, LongDelay}
    \* buttons, immediate polls and long gaps come at the start or at the
    \* end of a fill cycle
    /\ (left \/ right \/ d = 0 \/ d = LongDelay) => (index < 2 \/ index = samples - 1)
    \* the alarm button, and the immediate polls and long gaps of a running
    \* device, come at the start of a fill cycle
    /\ right => index = 0
    /\ (isDeviceRunning /\ (d = 0 \/ d = LongDelay)) => index = 0
    /\ \E hb \in {handleButtonPress(left, right, isDeviceRunning, isAlarmEnabled, pixels)} :
       \E cs \in {IF Collects(hb.run)
                  THEN collectSamples(index, lastTime, vReal,
                                      (clock + d + hb.delay) * 1000, Reading(m, index))
                  ELSE [gate |-> FALSE, ret |-> FALSE, index |-> index,
                        lastTime |-> lastTime, vReal |-> vReal]} :
       \E fft \in {IF Analyses(hb.run, cs.ret) THEN performFFT(cs.vReal)
                   ELSE [vReal |-> cs.vReal, vImag |-> vImag]} :
       \E in \in {IF Analyses(hb.run, cs.ret) THEN analyzeFFT(fft.vReal) ELSE -1} :
       \E ev \in {IF Analyses(hb.run, cs.ret)
                  THEN Evaluate(in, clock + d + hb.delay, sampleCount, dangerCount,
                                lastSampleSetTime, hb.alarm, intBits)
                  ELSE NoTick(sampleCount, dangerCount, lastSampleSetTime)} :
       LET t == clock + d + hb.delay
           done == Analyses(hb.run, cs.ret)
       IN /\ isDeviceRunning' = hb.run
          /\ isAlarmEnabled' = hb.alarm
          /\ index' = cs.index
          /\ lastTime' = cs.lastTime
          /\ vReal' = fft.vReal
          /\ vImag' = fft.vImag
          /\ pixels' = IF done THEN updateFeedback(in) ELSE hb.pixels
          /\ sampleCount' = ev.sampleCount
          /\ dangerCount' = ev.dangerCount
          /\ lastSampleSetTime' = ev.lastSampleSetTime
          /\ clock' = t + ev.delay
          /\ motion' = IF cs.gate THEN m ELSE motion
          /\ called' = Collects(hb.run)
          /\ gate' = cs.gate
          /\ ret' = cs.ret
          /\ intensity' = in
          /\ ticked' = ev.ticked
          /\ out' = ev.out
          /\ tickTime' = ev.tickTime
          /\ dividend' = ev.dividend
          /\ divisor' = ev.divisor
          /\ nPush' = nPush + (IF cs.gate THEN 1 ELSE 0)
          /\ nComplete' = nComplete + (IF cs.ret THEN 1 ELSE 0)
          /\ nUpdates' = nUpdates + (IF done THEN 1 ELSE 0)
          /\ nLeft' = nLeft + (IF left THEN 1 ELSE 0)
          /\ nRight' = nRight + (IF right THEN 1 ELSE 0)
          /\ alarmTimes' = IF ev.out = "AlarmTriggered"
                           THEN Append(alarmTimes, ev.tickTime) ELSE alarmTimes
          /\ idle' = IF isDeviceRunning THEN 0
                     ELSE IF hb.run THEN idle + d
                     ELSE idle + d + hb.delay
          /\ prevTick' = IF ev.ticked THEN ev.tickTime ELSE prevTick
          /\ nSince' = IF ev.out # "none" THEN 0
                       ELSE nSince + (IF cs.ret THEN 1 ELSE 0)
          /\ nEval' = nEval + (IF ev.out # "none" THEN 1 ELSE 0)
          /\ window' = IF cs.ret THEN cs.vReal ELSE Zeros
    /\ UNCHANGED <<intBits, calls, first>>

Next == \E d \in Delays, left \in BOOLEAN, right \in BOOLEAN, m \in Motions :
            loop(d, left, right, m)

Spec == Init /\ [][Next]_vars

\* ------------------------------------------------------------ a device left running
\* The passes of loop() when the wearer starts the device once, with the
\* alarm enabled or not, and then leaves it alone, still or trembling all
\* along: time advances from each pass to the next
NextLive == \E d \in Delays, right \in BOOLEAN, m \in Motions :
                /\ isDeviceRunning => (d # 0 /\ ~right)
                /\ nPush > 0 => m = motion
                /\ loop(d, ~isDeviceRunning, right, m)

\* loop() is called again and again: a pass that can be made is made
SpecLive == Init /\ [][NextLive]_vars /\ WF_vars(NextLive)

\* ------------------------------------------------------------ analyzeFFT on its own
\* A synthetic spectrum: magnitude a in bin p, b in bin q, 0 elsewhere
Spectrum(p, a, q, b) ==
    [i \in 0..samples-1 |-> IF i = p THEN a ELSE IF i = q THEN b ELSE 0]

\* Bins at and around the edges of the band, DC and the upper half
ProbeBins == {0, 5, 7, 8, 12, 15, 16, 18, 64, 120}

InitAnalyze ==
    /\ \E p \in 0..samples-1, q \in ProbeBins, a \in 0..MaxMag, b \in 0..MaxMag :
          vReal = Spectrum(p, a, q, b)
    /\ vImag = Zeros
    /\ index = 0 /\ sampleCount = 0 /\ dangerCount = 0
    /\ lastTime = 0 /\ lastSampleSetTime = 0
    /\ isDeviceRunning = FALSE /\ isAlarmEnabled = FALSE
    /\ pixels = ClearPixels
    /\ InitObserved
    /\ intBits = 32

\* double intensity = analyzeFFT()
Analyze ==
    /\ calls = 0
    /\ intensity' = analyzeFFT(vReal)
    /\ calls' = 1
    /\ UNCHANGED <<progVars, intBits, clock, motion, called, gate, ret, ticked,
                   tickTime, out, dividend, divisor, histVars, first>>

NextAnalyze == Analyze

SpecAnalyze == InitAnalyze /\ [][NextAnalyze]_vars

\* ------------------------------------------------------------ updateFeedback on its own
InitFeedback ==
    /\ InitProgram
    /\ clock = 0 /\ motion = 0
    /\ called = FALSE /\ gate = FALSE /\ ret = FALSE
    /\ intensity \in 0..MaxIntensity
    /\ ticked = FALSE /\ tickTime = -1 /\ out = "none"
    /\ dividend = -1 /\ divisor = -1
    /\ nPush = 0 /\ nComplete = 0 /\ nUpdates = 0 /\ nLeft = 0 /\ nRight = 0
    /\ alarmTimes = << >> /\ idle = 0
    /\ prevTick = -1 /\ nSince = 0 /\ nEval = 0 /\ window = Zeros
    /\ calls = 0 /\ first = Zeros
    /\ intBits = 32

\* updateFeedback(intensity)
Feedback ==
    /\ calls = 0
    /\ pixels' = updateFeedback(intensity)
    /\ calls' = 1
    /\ UNCHANGED <<vReal, vImag, index, sampleCount, dangerCount, lastTime,
                   lastSampleSetTime, isDeviceRunning, isAlarmEnabled, intBits,
                   clock, motion, obsVars, histVars, first>>

NextFeedback == Feedback

SpecFeedback == InitFeedback /\ [][NextFeedback]_vars

\* ------------------------------------------------------------ classification on its own
\* millis() at the pass: before the tick gate opens, as it opens, and with
\* the evaluation period of the 16-bit build elapsed
ClassifyTimes == {0, sampleInterval - 1, sampleInterval, evaluationPeriod(16)}

\* A running device whose performFFT has just left a spectrum with one peak,
\* in the tremor band, lastSampleSetTime being 0
InitClassify ==
    /\ \E a \in 0..MaxIntensity : vReal = Spectrum(12, a, 12, a)
    /\ vImag = Zeros
    /\ index = 0 /\ sampleCount = 0 /\ dangerCount = 0
    /\ lastTime = 0 /\ lastSampleSetTime = 0
    /\ isDeviceRunning = TRUE /\ isAlarmEnabled \in BOOLEAN
    /\ pixels = ClearPixels
    /\ clock \in ClassifyTimes /\ motion = 0
    /\ called = FALSE /\ gate = FALSE /\ ret = FALSE /\ intensity = -1
    /\ ticked = FALSE /\ tickTime = -1 /\ out = "none"
    /\ dividend = -1 /\ divisor = -1
    /\ nPush = 0 /\ nComplete = 0 /\ nUpdates = 0 /\ nLeft = 0 /\ nRight = 0
    /\ alarmTimes = << >> /\ idle = 0
    /\ prevTick = -1 /\ nSince = 0 /\ nEval = 0 /\ window = Zeros
    /\ calls = 0 /\ first = Zeros
    /\ intBits \in IntWidths

\* Lines 59-89 of loop(): analyzeFFT(), updateFeedback(intensity), and the
\* evaluator under its tick gate
Classify ==
    /\ calls = 0
    /\ \E in \in {analyzeFFT(vReal)} :
       \E ev \in {Evaluate(in, clock, sampleCount, dangerCount,
                            lastSampleSetTime, isAlarmEnabled, intBits)} :
          /\ intensity' = in
          /\ pixels' = updateFeedback(in)
          /\ sampleCount' = ev.sampleCount
          /\ dangerCount' = ev.dangerCount
          /\ lastSampleSetTime' = ev.lastSampleSetTime
          /\ clock' = clock + ev.delay
          /\ ticked' = ev.ticked
          /\ tickTime' = ev.tickTime
          /\ out' = ev.out
          /\ dividend' = ev.dividend
          /\ divisor' = ev.divisor
    /\ calls' = 1
    /\ UNCHANGED <<vReal, vImag, index, lastTime, isDeviceRunning,
                   isAlarmEnabled, intBits, motion, called, gate, ret,
                   histVars, first>>

NextClassify == Classify

SpecClassify == InitClassify /\ [][NextClassify]_vars

\* ------------------------------------------------------------ performFFT on its own
\* A complete window: one fill cycle of a tremor of amplitude amp at bin
WindowOf(amp, bin) ==
    [i \in 0..samples-1 |-> Magnitude(ReadingAt(amp, bin, i))]

InitFFT ==
    /\ \E amp \in 0..MaxAmp, bin \in 1..(samples \div 2 - 1) : vReal = WindowOf(amp, bin)
    /\ vImag = Zeros
    /\ index = 0 /\ sampleCount = 0 /\ dangerCount = 0
    /\ lastTime = 0 /\ lastSampleSetTime = 0
    /\ isDeviceRunning = FALSE /\ isAlarmEnabled = FALSE
    /\ pixels = ClearPixels
    /\ InitObserved
    /\ intBits = 32

\* performFFT(), called again with no push in between
Reanalyze ==
    /\ calls < 2
    /\ \E fft \in {performFFT(vReal)} :
          /\ vReal' = fft.vReal
          /\ vImag' = fft.vImag
          /\ first' = IF calls = 0 THEN fft.vReal ELSE first
    /\ calls' = calls + 1
    /\ UNCHANGED <<index, sampleCount, dangerCount, lastTime, lastSampleSetTime,
                   isDeviceRunning, isAlarmEnabled, pixels, intBits, clock, motion,
                   obsVars, histVars>>

NextFFT == Reanalyze

SpecFFT == InitFFT /\ [][NextFFT]_vars

\* ------------------------------------------------------------ properties
\* The tier the pixels show
Tier(px) ==
    IF px[0] = Red THEN "High"
    ELSE IF px[2] = Yellow THEN "Medium"
    ELSE IF px[4] = Green THEN "Low"
    ELSE "None"

\* This pass made a classification tick with the evaluation period elapsed
\* since lastSampleSetTime: a period boundary
Boundary == ticked' /\ tickTime' - lastSampleSetTime >= evaluationPeriod(intBits)

\* C1: at a period boundary the alarm is emitted exactly when dangerCount /
\* sampleCount >= 0.6 and the alarm is enabled at that moment, NoAlarm is
\* emitted in every other case at a boundary, and nothing off a boundary.
C1_AlarmExactlyWhenDue ==
    [][ /\ Boundary =>
             /\ dividend' = dangerCount + (IF intensity' >= 600 THEN 1 ELSE 0)
             /\ divisor' = sampleCount + 1
             /\ out' = IF 10 * dividend' >= 6 * divisor' /\ isAlarmEnabled'
                       THEN "AlarmTriggered" ELSE "NoAlarm"
        /\ ~Boundary => out' = "none" ]_vars

\* 3 dangerous ticks of 5 (ratio exactly 0.6) with the alarm enabled sounded it
C1_Witness ==
    out = "AlarmTriggered" /\ dividend = 3 /\ divisor = 5 /\ isAlarmEnabled

\* C2: an alarm is emitted only on a pass that is a period boundary, that pass
\* resets the counters, and it comes at least evaluationPeriod ms after the
\* alarm before it.
C2_AlarmOncePerPeriod ==
    [][ out' = "AlarmTriggered" =>
          /\ Boundary
          /\ sampleCount' = 0 /\ dangerCount' = 0
          /\ alarmTimes # << >> =>
                tickTime' - alarmTimes[Len(alarmTimes)] >= evaluationPeriod(intBits) ]_vars

\* a second alarm has sounded
C2_Witness == Len(alarmTimes) = 2 /\ out = "AlarmTriggered"

\* C3: after a period boundary, alarm or not, both counters are 0 and
\* lastSampleSetTime is the current time when the pass ends.
C3_ResetAfterBoundary ==
    [][ Boundary =>
          /\ sampleCount' = 0
          /\ dangerCount' = 0
          /\ lastSampleSetTime' = clock' ]_vars

\* a boundary without alarm reset counters that were not 0
C3_Witness ==
    /\ out = "NoAlarm" /\ dividend >= 1 /\ divisor >= 2
    /\ sampleCount = 0 /\ dangerCount = 0 /\ lastSampleSetTime = clock

\* C4: dangerCount <= sampleCount in every reachable state.
C4_DangerAtMostSamples == dangerCount <= sampleCount

\* every tick of three was dangerous
C4_Witness == dangerCount = 3 /\ sampleCount = 3

\* C5: an accepted push returns true exactly when it is the 128th of its fill
\* cycle and then leaves the cursor at 0; a call with the sampling gate closed
\* returns false and changes neither the cursor nor the buffer.
C5_PushCompletesOnNth ==
    /\ [](/\ index = nPush % 128
          /\ nComplete = nPush \div 128)
    /\ [][ called' =>
             IF gate'
             THEN /\ nPush' = nPush + 1
                  /\ ret' = (nPush' % 128 = 0)
                  /\ ret' => index' = 0
                  /\ ~ret' => index' = index + 1
             ELSE /\ ~ret'
                  /\ index' = index
                  /\ vReal' = vReal
                  /\ nPush' = nPush ]_vars

\* 128 pushes completed one window, and the next call found the gate closed
C5_Witness ==
    /\ nPush = 128 /\ nComplete = 1 /\ index = 0
    /\ called /\ ~gate /\ ~ret

\* C6: whenever dangerRatio is computed its divisor sampleCount is >= 1.
C6_NoDivisionByZero == out # "none" => divisor >= 1

\* the device was stopped for a whole evaluation period and the first tick
\* after the restart evaluated
C6_Witness ==
    /\ out # "none" /\ divisor = 1
    /\ nLeft = 3 /\ idle >= evaluationPeriod(intBits)

\* C7: the tier rendered is Low exactly below 25, Medium exactly from 25 to
\* below 60, High exactly from 60 on, and rendering touches no evaluator or
\* window state.
C7_TierThresholds ==
    calls = 1 =>
        /\ Tier(pixels) \in {"Low", "Medium", "High"}
        /\ Tier(pixels) = "Low" <=> intensity < 250
        /\ Tier(pixels) = "Medium" <=> (intensity >= 250 /\ intensity < 600)
        /\ Tier(pixels) = "High" <=> intensity >= 600
        /\ vReal = Zeros /\ index = 0 /\ sampleCount = 0 /\ dangerCount = 0
        /\ lastSampleSetTime = 0

\* 60.0 is rendered High
C7_Witness == calls = 1 /\ intensity = 600 /\ Tier(pixels) = "High"

\* The largest magnitude in bins 8..15 (3.125 Hz .. 5.859 Hz), 0 when none
BandPeak(v) ==
    LET S == {v[i] : i \in 8..15} \cup {0}
    IN CHOOSE m \in S : \A x \in S : m >= x

\* C8: analyzeFFT returns the largest magnitude over bins 8..15, 0 when they
\* are all 0, whatever bin 0 and the bins outside the band hold.
C8_BandMaximum == calls = 1 => intensity = BandPeak(vReal)

\* a larger peak at bin 5 (1.95 Hz) beside a peak in the band is ignored
C8_Witness == calls = 1 /\ vReal[5] = 3 /\ vReal[12] = 2 /\ intensity = 2

\* C9: performFFT called twice on a window with no push in between gives the
\* same spectrum both times.
C9_ReanalysisSame == calls = 2 => vReal = first

\* C10: the intensity updates made equal the windows completed, and a pass
\* makes one exactly when its collectSamples returned true.
C10_UpdatePerWindow ==
    /\ nUpdates = nComplete
    /\ (intensity # -1) <=> ret

\* the second window was completed and analysed
C10_Witness == nComplete = 2 /\ nUpdates = 2 /\ ret /\ intensity >= 0
\* C11: two consecutive classification ticks are at least sampleInterval
\* (2000 ms) apart, also across a period reset and across a stop and restart.
C11_TicksApart ==
    [][ (ticked' /\ prevTick # -1) => tickTime' - prevTick >= sampleInterval ]_vars

\* the first tick after a period reset, in a run that stopped and restarted
\* the device
C11_Witness ==
    /\ ticked /\ nEval = 1 /\ out = "none" /\ sampleCount = 1
    /\ nLeft = 3 /\ isDeviceRunning

\* C12: a classification tick adds exactly 1 to sampleCount, and 1 to
\* dangerCount exactly when the intensity of the window just completed is >=
\* 60.0 (at a period boundary the sums are the ones divided before the
\* reset); a pass that makes no tick changes neither counter.
C12_TickCounts ==
    [][ /\ (ticked' /\ ~Boundary) =>
              /\ sampleCount' = sampleCount + 1
              /\ dangerCount' = dangerCount + (IF intensity' >= 600 THEN 1 ELSE 0)
        /\ (ticked' /\ Boundary) =>
              /\ divisor' = sampleCount + 1
              /\ dividend' = dangerCount + (IF intensity' >= 600 THEN 1 ELSE 0)
              /\ sampleCount' = 0 /\ dangerCount' = 0
        /\ ~ticked' => (sampleCount' = sampleCount /\ dangerCount' = dangerCount) ]_vars

\* a tick on a calm window after a tick on a dangerous one
C12_Witness ==
    /\ ticked /\ out = "none" /\ intensity >= 0 /\ intensity < 600
    /\ sampleCount = 2 /\ dangerCount = 1
\* C13: evaluationPeriod holds 10 minutes = 600000 ms in every build, so no
\* ratio evaluation and no counter reset is made while fewer than 600000 ms
\* have elapsed since lastSampleSetTime.
C13_PeriodTenMinutes ==
    [][ (out' # "none" \/ lastSampleSetTime' # lastSampleSetTime) =>
            tickTime' - lastSampleSetTime >= 600000 ]_vars
\* C14: when collectSamples returns true, every slot of the buffer it returns
\* holds the magnitude of the reading taken for that slot in the fill cycle
\* just finished: nothing of an earlier cycle and nothing of the spectrum
\* performFFT left in vReal.
C14_WindowIsFresh ==
    ret => \A i \in 0..samples-1 : window[i] = Magnitude(Reading(motion, i))

\* the second window, of a trembling wearer, was filled over the spectrum of
\* the first, of a still one
C14_Witness ==
    /\ ret /\ nComplete = 2 /\ motion = MaxAmp /\ intensity >= 600
    /\ dangerCount = 1 /\ sampleCount = 2 /\ window # Zeros
\* C15: a loop pass that leaves the device stopped changes none of the
\* cursor, the buffer, the counters, lastSampleSetTime and lastTime, and
\* emits neither an intensity nor an alarm decision; the pass that restarts
\* the device pushes at the preserved cursor and counts on from the
\* preserved counters.
C15_PausePreserves ==
    [][ /\ ~isDeviceRunning' =>
              /\ UNCHANGED <<index, vReal, vImag, sampleCount, dangerCount,
                             lastSampleSetTime, lastTime>>
              /\ ~called' /\ intensity' = -1 /\ out' = "none" /\ ~ticked'
        /\ (~isDeviceRunning /\ isDeviceRunning') =>
              /\ gate' => index' = (index + 1) % samples
              /\ ~gate' => index' = index
              /\ ~ticked' => UNCHANGED <<sampleCount, dangerCount, lastSampleSetTime>>
              /\ (ticked' /\ out' = "none") =>
                    (sampleCount' = sampleCount + 1 /\ dangerCount' >= dangerCount) ]_vars

\* stopped in the middle of the second fill cycle and restarted a long time
\* later: the push went to the preserved cursor, the counter is the preserved one
C15_Witness ==
    /\ isDeviceRunning /\ nLeft = 3 /\ idle >= LongDelay
    /\ gate /\ index = 2 /\ nPush = samples + 2 /\ sampleCount = 1
\* C16: between two loop passes 0 <= index < 128, and collectSamples reports
\* the window complete exactly on the accepted push that takes the cursor
\* from 127 back to 0.
C16_CursorInRange ==
    /\ [](index \in 0..samples-1)
    /\ [][ /\ ret' <=> (gate' /\ index = samples - 1)
           /\ ret' => index' = 0
           /\ (gate' /\ index' = 0) => ret' ]_vars

\* the push at cursor 127 completed the second window
C16_Witness == ret /\ gate /\ index = 0 /\ nPush = 2 * samples
\* C17: every window completed makes a classification tick in the same pass
\* (the gate millis() - lastSampleSetTime >= 2000 is open at every
\* completion), so sampleCount is the number of windows completed since the
\* latest period reset, or since start-up.
C17_TickPerWindow ==
    /\ [](sampleCount = nSince)
    /\ [][ ret' <=> ticked' ]_vars

\* the first window after an alarm was completed 2540 ms after the period
\* start, the least the sketch allows, and made its tick
C17_Witness ==
    /\ ticked /\ out = "none" /\ nEval = 1 /\ Len(alarmTimes) = 1
    /\ nSince = 1 /\ sampleCount = 1
    /\ tickTime - lastSampleSetTime = (samples - 1) * (samplingPeriod \div 1000)
\* C18: for every intensity, a classification tick counts the window as
\* dangerous (the dangerCount it leaves, or divides at a period boundary, is
\* one more) exactly when updateFeedback renders the High tier for that
\* intensity; a pass whose tick gate is closed counts nothing.
C18_DangerIsHigh ==
    calls = 1 =>
        /\ ticked =>
              (((IF out # "none" THEN dividend ELSE dangerCount) = 1)
                  <=> (Tier(pixels) = "High"))
        /\ ~ticked => (dangerCount = 0 /\ sampleCount = 0)

\* a tick on intensity 60.0: dangerous, and rendered High
C18_Witness ==
    /\ calls = 1 /\ ticked /\ out = "none"
    /\ intensity = Fix(dangerZoneIntensity) /\ dangerCount = 1
    /\ Tier(pixels) = "High"

\* The evaluation period has elapsed on a running device, and the run has
\* room for the window under way to be completed
Pending ==
    /\ isDeviceRunning
    /\ clock - lastSampleSetTime >= evaluationPeriod(intBits)
    /\ nComplete < MaxWindows
    /\ clock + samples * (samplingPeriod \div 1000) <= MaxClock

\* C19: on a device left running, whenever the evaluation period has elapsed
\* a period evaluation follows, each time again; and the first tick made with
\* the period elapsed evaluates, resets the counters and restarts the period
\* in that same pass.
C19_EvaluationRecurs ==
    /\ Pending ~> (out # "none")
    /\ [][ Boundary =>
             /\ out' # "none" /\ nEval' = nEval + 1
             /\ sampleCount' = 0 /\ dangerCount' = 0
             /\ lastSampleSetTime' = clock' ]_vars

\* the second evaluation of a run that never stopped the device
C19_Witness ==
    /\ nEval = 2 /\ out # "none" /\ isDeviceRunning /\ nLeft = 1
    /\ sampleCount = 0 /\ lastSampleSetTime = clock
====
